---------------------------- MODULE Spec2Model ----------------------------
(***************************************************************************)
(* next-meeting (src/main.go): list or summarize upcoming calendar events. *)
(*                                                                         *)
(* Time is counted in abstract units, DayLen units to a calendar day.  A   *)
(* Go time.Time is the record [t, loc]: t the instant (units since the     *)
(* zero instant of time.Time{}), loc the location it carries.  Go's == on  *)
(* time.Time compares the fields of the struct, the location pointer      *)
(* included, so two values are equal iff both t and loc are equal.         *)
(***************************************************************************)
EXTENDS Integers, Sequences, FiniteSets

VARIABLES
    summarize,  \* the -s flag
    tz,         \* offset of the machine's local zone, in units
    zoneCache,  \* whether the time package shares one *Location per offset
    today,      \* truncDay(time.Now()) as last computed
    family,     \* which family of raw events the run draws its items from
    empty,      \* len(events.Items) == 0
    pc,         \* position in main / in the pure-function harnesses
    idx,        \* number of items the range loop has consumed
    cur,        \* the item of the iteration just executed
    last,       \* what that iteration did: "none", "skip", "shown", "appended"
    lastStart,  \* start instant of the last item with a parseable start
    prevDay,    \* prevDay (line 215, and its shadow of line 258)
    evs,        \* evs, the slice given to collapse
    c,          \* c, the result of collapse
    ci,         \* number of intervals of c already printed
    out,        \* the lines written to standard output
    url         \* result of urlFrom in the urlFrom harness

vars == <<summarize, tz, zoneCache, today, family, empty, pc, idx, cur, last, lastStart,
          prevDay, evs, c, ci, out, url>>

---------------------------------------------------------------------------
(* Bounds of the model.                                                    *)

MaxLen == 3
MaxT == 3
MaxDays == 2
MaxOff == 1
MaxItems == 3
MaxAtt == 2
MaxLoc == 3
MaxEP == 2

\* The length of a calendar day (24 hours in time.Date), in units.
DayLen == 2

---------------------------------------------------------------------------
(* time.Time and *time.Location.                                           *)

UTCLoc == [kind |-> "UTC", off |-> 0, id |-> 0]

LocalLoc(o) == [kind |-> "Local", off |-> o, id |-> 0]

FixedLoc(o, k) == [kind |-> "Fixed", off |-> o, id |-> k]

ZeroTime == [t |-> 0, loc |-> UTCLoc]

After(a, b) == a.t > b.t

Clock(x) == x.t + x.loc.off

\* truncDay returning its argument as it is.
truncDay_noTruncation(x) == x

truncDay(x) == [t |-> (Clock(x) \div DayLen) * DayLen - x.loc.off, loc |-> x.loc]

\* The comparison of line 245 as !day.Equal(prevDay): instants only.
dayChanged_instantOnly(day, prev) == day.t # prev.t

dayChanged(day, prev) == day # prev

---------------------------------------------------------------------------
(* collapse.                                                               *)

RECURSIVE collapseLoop(_, _, _, _)
collapseLoop(in, k, ev, o) ==
    IF k > Len(in) THEN Append(o, ev)
    ELSE IF After(in[k].Start, ev.End)
         THEN collapseLoop(in, k + 1, [Start |-> in[k].Start, End |-> in[k].End], Append(o, ev))
         ELSE IF After(in[k].End, ev.End)
              THEN collapseLoop(in, k + 1, [ev EXCEPT !.End = in[k].End], o)
              ELSE collapseLoop(in, k + 1, ev, o)

\* The loop with !ev.End.After(i.Start) at line 160: touching intervals split.
RECURSIVE collapseLoop_touchSplits(_, _, _, _)
collapseLoop_touchSplits(in, k, ev, o) ==
    IF k > Len(in) THEN Append(o, ev)
    ELSE IF ~After(ev.End, in[k].Start)
         THEN collapseLoop_touchSplits(in, k + 1, [Start |-> in[k].Start, End |-> in[k].End], Append(o, ev))
         ELSE IF After(in[k].End, ev.End)
              THEN collapseLoop_touchSplits(in, k + 1, [ev EXCEPT !.End = in[k].End], o)
              ELSE collapseLoop_touchSplits(in, k + 1, ev, o)

\* The loop without lines 166-168: the open interval is never extended.
RECURSIVE collapseLoop_noExtend(_, _, _, _)
collapseLoop_noExtend(in, k, ev, o) ==
    IF k > Len(in) THEN Append(o, ev)
    ELSE IF After(in[k].Start, ev.End)
         THEN collapseLoop_noExtend(in, k + 1, [Start |-> in[k].Start, End |-> in[k].End], Append(o, ev))
         ELSE collapseLoop_noExtend(in, k + 1, ev, o)

first(in) == [Start |-> in[1].Start, End |-> in[1].End]

collapse_touchSplits(in) ==
    IF Len(in) = 0 THEN <<>> ELSE collapseLoop_touchSplits(in, 2, first(in), <<>>)

collapse_noExtend(in) ==
    IF Len(in) = 0 THEN <<>> ELSE collapseLoop_noExtend(in, 2, first(in), <<>>)

\* collapse without line 170: the last open interval is not appended.
collapse_noFinalAppend(in) ==
    IF Len(in) = 0 THEN <<>>
    ELSE LET r == collapseLoop(in, 2, first(in), <<>>) IN SubSeq(r, 1, Len(r) - 1)

collapse(in) ==
    IF Len(in) = 0 THEN <<>> ELSE collapseLoop(in, 2, first(in), <<>>)

---------------------------------------------------------------------------
(* Strings.  A date or timestamp string is the record [kind, d, h, zk, zo]: *)
(* kind "empty" is "", "date" is a 2006-01-02 string of day d, "dt" is an  *)
(* RFC 3339 string reading day d, hour h with zone suffix "Z" (zk = "Z")   *)
(* or a numeric offset zo (zk = "num"), "bad" is any other non-empty text; *)
(* "fmtS" and "fmtE" are what Format("2006-01-02 15:04") and                *)
(* Format("15:04") write.  A location string is a sequence over            *)
(* {"P", "x", " "}: "P" is a scheme prefix http:// or https://, "x" any     *)
(* other non-space character, " " a white-space character.                 *)

EmptyText == [kind |-> "empty", d |-> 0, h |-> 0, zk |-> "none", zo |-> 0]

BadText == [kind |-> "bad", d |-> 0, h |-> 0, zk |-> "none", zo |-> 0]

DateText(d) == [kind |-> "date", d |-> d, h |-> 0, zk |-> "none", zo |-> 0]

StampText(d, h, zk, zo) == [kind |-> "dt", d |-> d, h |-> h, zk |-> zk, zo |-> zo]

NoConf == [present |-> FALSE, EntryPoints |-> <<>>]

NoItem == [ColorId |-> "", Attendees |-> <<>>,
           Start |-> [DateTime |-> EmptyText, Date |-> EmptyText],
           End |-> [DateTime |-> EmptyText, Date |-> EmptyText],
           Location |-> <<>>, ConferenceData |-> NoConf]

---------------------------------------------------------------------------
(* findUrl, zoomFrom, urlFrom.                                             *)

RECURSIVE tokenEnd(_, _)
tokenEnd(s, j) == IF j < Len(s) /\ s[j + 1] # " " THEN tokenEnd(s, j + 1) ELSE j

RECURSIVE findFrom(_, _)
findFrom(s, i) ==
    IF i >= Len(s) THEN <<>>
    ELSE IF s[i] = "P" /\ s[i + 1] # " " THEN SubSeq(s, i, tokenEnd(s, i + 1))
         ELSE findFrom(s, i + 1)

findUrl(s) == findFrom(s, 1)

RECURSIVE zoomLoop(_, _)
zoomLoop(eps, k) ==
    IF k > Len(eps) THEN <<>>
    ELSE IF eps[k].MeetingCode # ""
         THEN <<eps[k].Uri, " (meeting:", eps[k].MeetingCode, " pass:", eps[k].Password, ")">>
         ELSE zoomLoop(eps, k + 1)

zoomFrom(conf) == IF ~conf.present THEN <<>> ELSE zoomLoop(conf.EntryPoints, 1)

\* urlFrom asking the conference data before the location.
urlFrom_conferenceFirst(event) ==
    LET z == zoomFrom(event.ConferenceData)
        f == findUrl(event.Location)
    IN  IF z # <<>> THEN z ELSE IF f # <<>> THEN f ELSE event.Location

urlFrom(event) ==
    LET f == findUrl(event.Location)
        z == zoomFrom(event.ConferenceData)
    IN  IF f # <<>> THEN f ELSE IF z # <<>> THEN z ELSE event.Location

---------------------------------------------------------------------------
(* parseDay, Format, startDateFrom, endDateFrom, rspStatusFrom.            *)

\* time.Parse gives a date-only string the UTC location, a "Z" suffix the UTC
\* location, a numeric offset equal to the local zone's the Local location,
\* and any other numeric offset a location made by time.FixedZone: one per
\* call (k numbers the calls) or one per offset, depending on the release of
\* the time package the program is built with (zoneCache).
parseZone(d, k) ==
    IF d.zk = "Z" THEN UTCLoc
    ELSE IF d.zo = tz THEN LocalLoc(tz)
         ELSE FixedLoc(d.zo, IF zoneCache THEN 0 ELSE k)

\* parseDay answering a fixed day for a string in neither format.
parseDay_lenient(d, k) ==
    IF d.kind = "date" THEN [ok |-> TRUE, v |-> [t |-> d.d * DayLen, loc |-> UTCLoc]]
    ELSE IF d.kind = "dt"
         THEN [ok |-> TRUE, v |-> [t |-> d.d * DayLen + d.h - d.zo, loc |-> parseZone(d, k)]]
         ELSE [ok |-> TRUE, v |-> [t |-> DayLen, loc |-> UTCLoc]]

parseDay(d, k) ==
    IF d.kind = "date" THEN [ok |-> TRUE, v |-> [t |-> d.d * DayLen, loc |-> UTCLoc]]
    ELSE IF d.kind = "dt"
         THEN [ok |-> TRUE, v |-> [t |-> d.d * DayLen + d.h - d.zo, loc |-> parseZone(d, k)]]
         ELSE [ok |-> FALSE, v |-> ZeroTime]

formatStart(x) ==
    [kind |-> "fmtS", d |-> Clock(x) \div DayLen, h |-> Clock(x) % DayLen, zk |-> "none", zo |-> 0]

formatEnd(x) ==
    [kind |-> "fmtE", d |-> 0, h |-> Clock(x) % DayLen, zk |-> "none", zo |-> 0]

startDateFrom(event) ==
    IF event.Start.DateTime = EmptyText THEN event.Start.Date ELSE event.Start.DateTime

endDateFrom(event) ==
    IF event.End.DateTime = EmptyText THEN event.End.Date ELSE event.End.DateTime

RECURSIVE rspLoop(_, _)
rspLoop(as, k) ==
    IF k > Len(as) THEN ""
    ELSE IF as[k].Self THEN as[k].ResponseStatus ELSE rspLoop(as, k + 1)

\* rspStatusFrom without the test of line 111: the first attendee's status.
rspStatusFrom_anyAttendee(event) ==
    IF Len(event.Attendees) = 0 THEN "" ELSE event.Attendees[1].ResponseStatus

rspStatusFrom(event) == rspLoop(event.Attendees, 1)

---------------------------------------------------------------------------
(* main, from the answer of the calendar query on.  A line of standard     *)
(* output is the record [kind, at, s, e, url, ann]: kind "none" is the "No *)
(* upcoming events found." line, "sep" the line of dashes, "detail" the    *)
(* line of one event and "range" the line of one collapsed interval; s and *)
(* e are the start and end texts printed, url the result of urlFrom, ann   *)
(* the response status of the bracketed suffix ("" when there is none).    *)
(* at records the start instant the line was printed for.  The summary and *)
(* the link of an event are copied to the line unread and are left out.    *)

Line(kind, at, s0, e0, u, a) ==
    [kind |-> kind, at |-> at, s |-> s0, e |-> e0, url |-> u, ann |-> a]

NoneLine == Line("none", ZeroTime, EmptyText, EmptyText, <<>>, "")

SepLine == Line("sep", ZeroTime, EmptyText, EmptyText, <<>>, "")

\* Lines 228-240: ev, day, startDate and endDate of one surviving item, the
\* k-th of the list.
resolve(item, k) ==
    LET ps == parseDay(startDateFrom(item), 2 * k - 1)
        pe == parseDay(endDateFrom(item), 2 * k)
    IN  [ev |-> [Start |-> IF ps.ok THEN ps.v ELSE ZeroTime,
                 End |-> IF pe.ok THEN pe.v ELSE ZeroTime],
         day |-> IF ps.ok THEN truncDay(ps.v) ELSE ZeroTime,
         startDate |-> IF ps.ok THEN formatStart(ps.v) ELSE startDateFrom(item),
         endDate |-> IF pe.ok THEN formatEnd(pe.v) ELSE endDateFrom(item)]

\* Lines 245-253.
detailLines(item, r, prev) ==
    LET st == rspStatusFrom(item)
        ln == Line("detail", r.ev.Start, r.startDate, r.endDate, urlFrom(item),
                   IF st # "" /\ st # "accepted" THEN st ELSE "")
    IN  IF dayChanged(r.day, prev) THEN <<SepLine, ln>> ELSE <<ln>>

\* Lines 260-267.
rangeLines(i, prev) ==
    LET ln == Line("range", i.Start, formatStart(i.Start), formatEnd(i.End), <<>>, "")
    IN  IF dayChanged(truncDay(i.Start), prev) THEN <<SepLine, ln>> ELSE <<ln>>

---------------------------------------------------------------------------
(* The raw events a run may receive.  The query orders them by start time. *)

FirstDay == MaxOff + 1

Days == FirstDay..(FirstDay + MaxDays - 1)

Hours == 0..(DayLen - 1)

\* The numeric offsets a run's timestamps carry: the local zone's and one other.
StampOffsets == {tz, (tz + 1) % (MaxOff + 1)}

Stamps == {StampText(d, h, "num", o) : d \in Days, h \in Hours, o \in StampOffsets}

Dates == {DateText(d) : d \in Days}

Field(t) ==
    IF t.kind = "date" THEN [DateTime |-> EmptyText, Date |-> t]
    ELSE [DateTime |-> t, Date |-> EmptyText]

\* The end strings tried with a start string: one unit later in the same
\* notation, and for some an unparseable one.
EndsFor(t) ==
    IF t.kind = "date" THEN {DateText(t.d + 1), BadText}
    ELSE IF t.kind = "dt"
         THEN {StampText(t.d + (t.h + 1) \div DayLen, (t.h + 1) % DayLen, t.zk, t.zo)}
         ELSE {BadText, StampText(FirstDay, 0, "Z", 0)}

Statuses == {"accepted", "declined", "tentative"}

\* The calendar's owner with any status; another attendee, who declined.
Attendee ==
    [Self : {TRUE}, ResponseStatus : Statuses] \cup [Self : {FALSE}, ResponseStatus : {"declined"}]

AttendeeLists == UNION {[1..m -> Attendee] : m \in 0..MaxAtt}

\* The items of a run of main carry an empty location and no conference
\* data; urlFrom is run over locations and conference data further below.
Item(col, as, st, en) ==
    [ColorId |-> col, Attendees |-> as, Start |-> Field(st), End |-> Field(en),
     Location |-> <<>>, ConferenceData |-> NoConf]

\* Family "times" varies the start and end strings, family "people" the
\* color tag and the attendee list.
TimesItems ==
    UNION {{Item("", <<>>, st, en) : en \in EndsFor(st)} : st \in Stamps \cup Dates \cup {BadText}}
    \cup {Item("5", <<>>, st, DateText(st.d + 1)) : st \in Dates}

PeopleItems ==
    {Item(col, as, StampText(FirstDay, 0, "num", 0), StampText(FirstDay, 1, "num", 0)) :
        col \in {"", "5"}, as \in AttendeeLists}

Items == IF family = "times" THEN TimesItems ELSE PeopleItems

\* The query returns the items ordered by start time.
InOrder(item) ==
    LET ps == parseDay(startDateFrom(item), 0) IN ps.ok => ps.v.t >= lastStart

StartOf(item) ==
    LET ps == parseDay(startDateFrom(item), 0) IN IF ps.ok THEN ps.v.t ELSE lastStart

Moments(d) == {[t |-> d * DayLen + h - tz, loc |-> LocalLoc(tz)] : h \in Hours}

Init ==
    /\ summarize \in BOOLEAN
    /\ family \in {"times", "people"}
    /\ tz \in (IF family = "times" THEN {0, MaxOff} ELSE {0})
    /\ zoneCache \in (IF family = "times" THEN BOOLEAN ELSE {FALSE})
    /\ empty \in BOOLEAN
    /\ today = ZeroTime /\ pc = "start" /\ idx = 0 /\ cur = NoItem /\ last = "none"
    /\ lastStart = 0 /\ prevDay = ZeroTime /\ evs = <<>> /\ c = <<>> /\ ci = 0
    /\ out = <<>> /\ url = <<>>

\* Lines 212-213.
NoEvents ==
    /\ pc = "start" /\ empty
    /\ out' = Append(out, NoneLine)
    /\ pc' = "done"
    /\ UNCHANGED <<summarize, tz, zoneCache, today, family, empty, idx, cur, last,
                   lastStart, prevDay, evs, c, ci, url>>

\* Lines 214-217.
Begin ==
    /\ pc = "start" /\ ~empty
    /\ \E m \in Moments(FirstDay) : today' = truncDay(m)
    /\ prevDay' = today'
    /\ pc' = "loop"
    /\ UNCHANGED <<summarize, tz, zoneCache, family, empty, idx, cur, last,
                   lastStart, evs, c, ci, out, url>>

\* Lines 221-223.
SkipColored ==
    /\ pc = "loop" /\ idx < MaxItems
    /\ \E item \in Items :
        /\ InOrder(item)
        /\ item.ColorId # ""
        /\ cur' = item
        /\ lastStart' = StartOf(item)
    /\ idx' = idx + 1
    /\ last' = "skip"
    /\ UNCHANGED <<summarize, tz, zoneCache, today, family, empty, pc, prevDay,
                   evs, c, ci, out, url>>

\* Lines 224-227.
SkipDeclined ==
    /\ pc = "loop" /\ idx < MaxItems
    /\ \E item \in Items :
        /\ InOrder(item)
        /\ item.ColorId = ""
        /\ rspStatusFrom(item) = "declined"
        /\ cur' = item
        /\ lastStart' = StartOf(item)
    /\ idx' = idx + 1
    /\ last' = "skip"
    /\ UNCHANGED <<summarize, tz, zoneCache, today, family, empty, pc, prevDay,
                   evs, c, ci, out, url>>

\* Lines 228-243 without the else of line 244: the item is printed as well.
AppendItem_alsoPrints ==
    /\ pc = "loop" /\ idx < MaxItems /\ summarize
    /\ \E item \in Items :
        /\ InOrder(item)
        /\ item.ColorId = ""
        /\ rspStatusFrom(item) # "declined"
        /\ cur' = item
        /\ lastStart' = StartOf(item)
        /\ evs' = Append(evs, resolve(item, idx + 1).ev)
        /\ out' = out \o detailLines(item, resolve(item, idx + 1), prevDay)
    /\ idx' = idx + 1
    /\ last' = "appended"
    /\ UNCHANGED <<summarize, tz, zoneCache, today, family, empty, pc, prevDay,
                   c, ci, url>>

\* Lines 228-243, summarize set.
AppendItem ==
    /\ pc = "loop" /\ idx < MaxItems /\ summarize
    /\ \E item \in Items :
        /\ InOrder(item)
        /\ item.ColorId = ""
        /\ rspStatusFrom(item) # "declined"
        /\ cur' = item
        /\ lastStart' = StartOf(item)
        /\ evs' = Append(evs, resolve(item, idx + 1).ev)
    /\ idx' = idx + 1
    /\ last' = "appended"
    /\ UNCHANGED <<summarize, tz, zoneCache, today, family, empty, pc, prevDay,
                   c, ci, out, url>>

\* Lines 228-240 and 245-253, summarize clear.
PrintItem ==
    /\ pc = "loop" /\ idx < MaxItems /\ ~summarize
    /\ \E item \in Items :
        /\ InOrder(item)
        /\ item.ColorId = ""
        /\ rspStatusFrom(item) # "declined"
        /\ cur' = item
        /\ lastStart' = StartOf(item)
        /\ LET r == resolve(item, idx + 1) IN
            /\ out' = out \o detailLines(item, r, prevDay)
            /\ prevDay' = IF dayChanged(r.day, prevDay) THEN r.day ELSE prevDay
    /\ idx' = idx + 1
    /\ last' = "shown"
    /\ UNCHANGED <<summarize, tz, zoneCache, today, family, empty, pc, evs, c, ci, url>>

\* Line 256 with summarize clear: main returns.
EndDetail ==
    /\ pc = "loop" /\ idx >= 1 /\ ~summarize
    /\ pc' = "done"
    /\ cur' = NoItem /\ last' = "none"
    /\ UNCHANGED <<summarize, tz, zoneCache, today, family, empty, idx,
                   lastStart, prevDay, evs, c, ci, out, url>>

\* Lines 256-258: the clock is read again, still on the same day.
BeginSummary ==
    /\ pc = "loop" /\ idx >= 1 /\ summarize
    /\ c' = collapse(evs)
    /\ \E m \in Moments(FirstDay) : today' = truncDay(m)
    /\ prevDay' = today'
    /\ ci' = 0
    /\ pc' = "summary"
    /\ cur' = NoItem /\ last' = "none"
    /\ UNCHANGED <<summarize, tz, zoneCache, family, empty, idx,
                   lastStart, evs, out, url>>

\* Lines 259-268, one iteration.
PrintInterval ==
    /\ pc = "summary" /\ ci < Len(c)
    /\ LET i == c[ci + 1] IN
        /\ out' = out \o rangeLines(i, prevDay)
        /\ prevDay' = IF dayChanged(truncDay(i.Start), prevDay) THEN truncDay(i.Start) ELSE prevDay
    /\ ci' = ci + 1
    /\ UNCHANGED <<summarize, tz, zoneCache, today, family, empty, pc, idx, cur, last,
                   lastStart, evs, c, url>>

\* Line 269: the loop over c is over.
EndSummary ==
    /\ pc = "summary" /\ ci = Len(c)
    /\ pc' = "done"
    /\ UNCHANGED <<summarize, tz, zoneCache, today, family, empty, idx, cur, last,
                   lastStart, prevDay, evs, c, ci, out, url>>

Next ==
    \/ NoEvents
    \/ Begin
    \/ SkipColored
    \/ SkipDeclined
    \/ AppendItem
    \/ PrintItem
    \/ EndDetail
    \/ BeginSummary
    \/ PrintInterval
    \/ EndSummary

Spec == Init /\ [][Next]_vars

---------------------------------------------------------------------------
(* The collapse harness: every ascending-by-start sequence of at most      *)
(* MaxLen intervals over the instants 0..MaxT, then one call of collapse.  *)

Instants == {[t |-> i, loc |-> UTCLoc] : i \in 0..MaxT}

Intervals == [Start : Instants, End : Instants]

Ascending(s) == \A k \in 1..(Len(s) - 1) : ~After(s[k].Start, s[k + 1].Start)

AscendingSeqs == {s \in UNION {[1..m -> Intervals] : m \in 0..MaxLen} : Ascending(s)}

Idle ==
    /\ summarize = FALSE /\ tz = 0 /\ zoneCache = FALSE /\ today = ZeroTime /\ family = "none"
    /\ empty = TRUE /\ idx = 0 /\ cur = NoItem /\ last = "none" /\ lastStart = 0
    /\ prevDay = ZeroTime /\ ci = 0 /\ out = <<>> /\ url = <<>>

InitCollapse ==
    /\ Idle
    /\ pc = "collapse_in"
    /\ evs \in AscendingSeqs
    /\ c = <<>>

CallCollapse ==
    /\ pc = "collapse_in"
    /\ c' = collapse(evs)
    /\ pc' = "collapse_out"
    /\ UNCHANGED <<summarize, tz, zoneCache, today, family, empty, idx, cur, last, lastStart,
                   prevDay, evs, ci, out, url>>

NextCollapse == CallCollapse

SpecCollapse == InitCollapse /\ [][NextCollapse]_vars

---------------------------------------------------------------------------
(* Claims about collapse, checked under SpecCollapse.                      *)

WellFormed(s) == \A k \in 1..Len(s) : ~After(s[k].Start, s[k].End)

\* x counts half units, so that a gap between two instants is seen too.
Covers(s, x) == \E k \in 1..Len(s) : 2 * s[k].Start.t <= x /\ x <= 2 * s[k].End.t

\* C1: for an input ascending by start, the output of collapse is ascending
\* by start and every output interval ends strictly before the next starts.
C1_AscendingNonTouching ==
    pc = "collapse_out" =>
        \A k \in 1..(Len(c) - 1) :
            /\ c[k].Start.t <= c[k + 1].Start.t
            /\ c[k].End.t < c[k + 1].Start.t

C1_Witness ==
    /\ pc = "collapse_out"
    /\ Len(c) >= 2
    /\ \E k \in 1..(Len(evs) - 1) : evs[k + 1].Start.t = evs[k].End.t

\* C2: for an ascending input whose intervals all have end >= start, an
\* instant lies in some output interval iff it lies in some input interval;
\* the empty input gives the empty output.
C2_SameCoverage ==
    (pc = "collapse_out" /\ WellFormed(evs)) =>
        /\ \A x \in 0..(2 * MaxT) : Covers(c, x) <=> Covers(evs, x)
        /\ (evs = <<>> => c = <<>>)

C2_Witness ==
    /\ pc = "collapse_out"
    /\ WellFormed(evs)
    /\ Len(c) >= 2
    /\ \E k \in 1..(Len(evs) - 1) :
           /\ evs[k + 1].Start.t > evs[k].Start.t
           /\ evs[k + 1].End.t < evs[k].End.t

\* C3: collapse applied to its own output returns that output unchanged.
C3_Idempotent == pc = "collapse_out" => collapse(c) = c

C3_Witness ==
    /\ pc = "collapse_out"
    /\ Len(c) >= 2
    /\ Len(c) < Len(evs)

---------------------------------------------------------------------------
(* The urlFrom harness: every location of at most MaxLoc characters with   *)
(* every conference data of at most MaxEP entry points, then one call.     *)

Locations == UNION {[1..m -> {"P", "x", " "}] : m \in 0..MaxLoc}

EntryPoints == [Uri : {"", "u"}, MeetingCode : {"", "m"}, Password : {"", "p"}]

Conferences ==
    {NoConf} \cup
    {[present |-> TRUE, EntryPoints |-> e] : e \in UNION {[1..m -> EntryPoints] : m \in 0..MaxEP}}

InitUrl ==
    /\ summarize = FALSE /\ tz = 0 /\ zoneCache = FALSE /\ today = ZeroTime /\ family = "none"
    /\ empty = TRUE /\ idx = 0 /\ last = "none" /\ lastStart = 0
    /\ prevDay = ZeroTime /\ ci = 0 /\ out = <<>> /\ url = <<>>
    /\ evs = <<>> /\ c = <<>>
    /\ pc = "url_in"
    /\ \E l \in Locations, cf \in Conferences :
           cur = [NoItem EXCEPT !.Location = l, !.ConferenceData = cf]

CallUrlFrom ==
    /\ pc = "url_in"
    /\ url' = urlFrom(cur)
    /\ pc' = "url_out"
    /\ UNCHANGED <<summarize, tz, zoneCache, today, family, empty, idx, cur, last, lastStart,
                   prevDay, evs, c, ci, out>>

NextUrl == CallUrlFrom

SpecUrl == InitUrl /\ [][NextUrl]_vars

---------------------------------------------------------------------------
(* Claim about urlFrom, checked under SpecUrl.                             *)

\* A token starts at i: a scheme prefix followed by a non-space character.
TokenAt(s, i) == i < Len(s) /\ s[i] = "P" /\ s[i + 1] # " "

HasToken(s) == \E i \in 1..Len(s) : TokenAt(s, i)

FirstToken(s) ==
    LET i == CHOOSE a \in 1..Len(s) : TokenAt(s, a) /\ \A b \in 1..(a - 1) : ~TokenAt(s, b)
        j == CHOOSE e \in (i + 1)..Len(s) :
                 /\ \A m \in (i + 1)..e : s[m] # " "
                 /\ (e = Len(s) \/ s[e + 1] = " ")
    IN  [m \in 1..(j - i + 1) |-> s[i + m - 1]]

HasCode(conf) ==
    conf.present /\ \E k \in 1..Len(conf.EntryPoints) : conf.EntryPoints[k].MeetingCode # ""

FirstCoded(conf) ==
    conf.EntryPoints[CHOOSE k \in 1..Len(conf.EntryPoints) :
        /\ conf.EntryPoints[k].MeetingCode # ""
        /\ \A j \in 1..(k - 1) : conf.EntryPoints[j].MeetingCode = ""]

\* C7: urlFrom returns the first http(s):// token of the location when there
\* is one, whatever the conference data; otherwise the rendering of the first
\* entry point with a non-empty meeting code when there is one; otherwise the
\* location text unchanged.
C7_UrlPrecedence ==
    pc = "url_out" =>
        IF HasToken(cur.Location) THEN url = FirstToken(cur.Location)
        ELSE IF HasCode(cur.ConferenceData)
             THEN LET ep == FirstCoded(cur.ConferenceData)
                  IN  url = <<ep.Uri, " (meeting:", ep.MeetingCode, " pass:", ep.Password, ")">>
             ELSE url = cur.Location

C7_Witness ==
    /\ pc = "url_out"
    /\ HasToken(cur.Location)
    /\ HasCode(cur.ConferenceData)
    /\ url # cur.Location
    /\ url = FirstToken(cur.Location)

---------------------------------------------------------------------------
(* Claims about main, checked under Spec.                                  *)

\* The first attendee flagged as the calendar's owner has declined.
SelfDeclined(item) ==
    \E k \in 1..Len(item.Attendees) :
        /\ item.Attendees[k].Self
        /\ item.Attendees[k].ResponseStatus = "declined"
        /\ \A j \in 1..(k - 1) : ~item.Attendees[j].Self

Filtered(item) == item.ColorId # "" \/ SelfDeclined(item)

IsItemLine(l) == l.kind \in {"detail", "range"}

ItemLines == {k \in 1..Len(out) : IsItemLine(out[k])}

DetailCount(o) == Cardinality({k \in 1..Len(o) : o[k].kind = "detail"})

\* C4: an iteration over an item that has a color tag, or whose owner declined,
\* prints nothing and appends nothing; an iteration over any other item prints
\* its detail line (detail mode) or appends its interval to evs (summary mode).
C4_FilterExcludes ==
    [][(pc = "loop" /\ idx' = idx + 1) =>
          IF Filtered(cur')
          THEN out' = out /\ evs' = evs /\ last' = "skip"
          ELSE IF summarize
               THEN out' = out /\ Len(evs') = Len(evs) + 1 /\ last' = "appended"
               ELSE /\ evs' = evs /\ last' = "shown"
                    /\ DetailCount(out') = DetailCount(out) + 1
                    /\ out'[Len(out')].kind = "detail"]_vars

C4_Witness ==
    /\ pc = "loop" /\ last = "skip"
    /\ cur.ColorId = ""
    /\ Len(cur.Attendees) = 2
    /\ ~cur.Attendees[1].Self
    /\ SelfDeclined(cur)

\* C5: when no event is left after filtering, the output is exactly the one
\* line saying that no events were found.
C5_NoEventsLine ==
    (pc = "done" /\ evs = <<>> /\ DetailCount(out) = 0) => out = <<NoneLine>>

\* The calendar date of a time value in its own zone, and the midnight that
\* starts it.
CalDay(x) == (x.t + x.loc.off) \div DayLen

Midnight(x) == [t |-> CalDay(x) * DayLen - x.loc.off, loc |-> x.loc]

PrevItemLine(k) ==
    IF \E j \in ItemLines : j < k
    THEN CHOOSE j \in ItemLines : j < k /\ \A i \in ItemLines : i < k => i <= j
    ELSE 0

SepBefore(k) == k > 1 /\ out[k - 1].kind = "sep"

\* Every separator stands alone, immediately before an item line.
SepsSingle ==
    \A k \in 1..Len(out) :
        out[k].kind = "sep" => k < Len(out) /\ IsItemLine(out[k + 1])

Added == SubSeq(out', Len(out) + 1, Len(out'))

Rendered(x) ==
    /\ IF Midnight(x) # prevDay
       THEN Len(Added) = 2 /\ Added[1].kind = "sep" /\ IsItemLine(Added[2])
       ELSE Len(Added) = 1 /\ IsItemLine(Added[1])
    /\ prevDay' = Midnight(x)

RangeLines == SelectSeq(out, LAMBDA l : l.kind = "range")

\* C9: in summary mode nothing is printed while the items are read; after the
\* loop c is collapse of evs, evs holding the interval of each surviving
\* event in arrival order, and the output ends up with one time-range line
\* per interval of c, in c's order, so never more than surviving events.
C9_SummaryLines ==
    (summarize /\ ~empty) =>
        /\ pc = "loop" => out = <<>>
        /\ (pc = "loop" /\ last = "appended") => evs[Len(evs)] = resolve(cur, idx).ev
        /\ pc \in {"summary", "done"} => c = collapse(evs) /\ Len(c) <= Len(evs)
        /\ pc = "summary" => Len(RangeLines) = ci
        /\ pc = "done" =>
               /\ Len(RangeLines) = Len(c)
               /\ \A k \in 1..Len(c) :
                      /\ RangeLines[k].at = c[k].Start
                      /\ RangeLines[k].s = formatStart(c[k].Start)
                      /\ RangeLines[k].e = formatEnd(c[k].End)
               /\ \A k \in 1..Len(out) : out[k].kind \in {"range", "sep"}

C9_Witness ==
    /\ summarize /\ pc = "done"
    /\ Len(evs) = 3
    /\ Len(c) = 2
    /\ Len(RangeLines) = 2

Unparseable(t) == t.kind \notin {"date", "dt"}

StartText(item) ==
    IF item.Start.DateTime.kind = "empty" THEN item.Start.Date ELSE item.Start.DateTime

EndText(item) ==
    IF item.End.DateTime.kind = "empty" THEN item.End.Date ELSE item.End.DateTime

\* C10: a surviving event whose start or end string does not parse is not
\* skipped: it is rendered (detail mode) or appended (summary mode), with
\* the instant concerned, and for the start the day, left at the zero instant.
C10_UnparseableKept ==
    (pc = "loop" /\ last # "none" /\ ~Filtered(cur)) =>
        /\ last = (IF summarize THEN "appended" ELSE "shown")
        /\ (summarize /\ Unparseable(StartText(cur))) => evs[Len(evs)].Start = ZeroTime
        /\ (summarize /\ Unparseable(EndText(cur))) => evs[Len(evs)].End = ZeroTime
        /\ (~summarize /\ Unparseable(StartText(cur))) =>
               /\ out[Len(out)].kind = "detail"
               /\ out[Len(out)].at = ZeroTime
               /\ out[Len(out)].s = StartText(cur)
               /\ prevDay = ZeroTime
        /\ (~summarize /\ Unparseable(EndText(cur))) =>
               /\ out[Len(out)].kind = "detail"
               /\ out[Len(out)].e = EndText(cur)

C10_Witness ==
    /\ pc = "loop" /\ last = "shown" /\ ~Filtered(cur)
    /\ Unparseable(StartText(cur))
    /\ Unparseable(EndText(cur))
    /\ Len(out) >= 3
    /\ out[Len(out)].kind = "detail"
    /\ out[Len(out)].at = ZeroTime

===========================================================================
